---- MODULE Spec2Model ----
(***************************************************************************)
(* State-machine model of the render/asset coordination core of formx:     *)
(* Renderer (renderer.ts), AssetManager (assetManager.ts), the input       *)
(* controller returned by createControls (controls.ts) and MockRenderer    *)
(* (mockRenderer.ts).                                                      *)
(*                                                                         *)
(* Execution model: JavaScript's single thread.  One action is one         *)
(* macrotask (a call made by the UI, a DOM input event, an animation-frame *)
(* callback, the completion callback of an HDR load) together with every   *)
(* promise continuation (microtask) it makes runnable.                     *)
(***************************************************************************)
EXTENDS Integers, Sequences, FiniteSets, TLC

----------------------------------------------------------------------------
(* Bounds of the model                                                     *)

\* HDR loads started over one run
MaxLoads == 6
\* loadEnvironmentMap continuations suspended at the same time
MaxWaiters == 2
\* animation-frame callbacks run since the last call or input event
MaxTicks == 3
\* largest coordinate a camera/cube transform component takes
MaxCoord == 2

----------------------------------------------------------------------------
(* Closed enumerations (types.ts)                                          *)

EnvMapQuality == {"1k", "2k", "4k"}
MaterialType == {"basic", "pbr"}
FaceStyle == {"wood", "glass", "fur", "metal", "plastic", "gold"}
TransformMode == {"translate", "rotate", "scale"}
FACE_INDICES == 0..5

\* the face styles the commands are called with
StylesUsed == {"wood", "metal"}
Coord == 0..MaxCoord

\* scene.background values that are not a texture: null (a Scene as
\* constructed) and the flat dark colour 0x1a1a1a
BgNull == -1
BgDark == 0
\* scene.environment = null
NoTexture == 0

VARIABLES
    \* ---- Renderer
    pc,              \* position of the (single) initialize call
    cfg,             \* the fields of initialize's config it has yet to read
    usingWebGPU,
    isInitialized,
    instance,        \* Renderer.instance !== null
    renderRequested,
    animationId,     \* 0 = null
    rafQueue,        \* animation-frame callbacks scheduled with the host
    scene,           \* this.scene: [environment, background]
    transformControls, \* [enabled, mode, inScene]
    labelsVisible,   \* faceLabels.visible
    controls,        \* [real, enabled, autoRotate, keys, dragging, listening]
    camera,          \* [pos, look, aspect]
    cube,            \* [real, pos, rot, scale]
    faces,           \* cube.material[0..5]: [roughness, metalness, color]
    \* ---- AssetManager referenced by this.assetManager, and HDR loads
    materials,       \* the preset map: key -> [roughness, metalness, color]
    envMaps,         \* tier -> load held by the tier's slot (0 = no slot)
    amInitialized,
    amAwait,         \* the load AssetManager.initialize is suspended on (0 = none)
    amAgain,         \* the load a second AssetManager.initialize call is suspended on
    loads,           \* every HDR load started: [q, st]
    waiters,         \* suspended loadEnvironmentMap calls, oldest first
    \* ---- MockRenderer
    mockPc,
    mockLog,
    \* ---- the page around this Renderer
    other,           \* the Renderer getInstance constructs after this one: [st, registered]
    eventListeners,  \* this.eventListeners: event -> callbacks in insertion order
    store,           \* the Redux renderer slice: [debugMode, showBackground]
    \* ---- observation
    threw,           \* the last call raised an exception to its caller
    lastOp,          \* the last action and its arguments
    emitted,         \* events passed to emit() by the last action
    calls,           \* callbacks invoked by those emit() calls, in order
    envCall,         \* [q, show] of the latest loadEnvironmentMap call
    initLog,         \* events passed to emit() by the initialize call
    sinceOp,         \* [ticks, draws]: frames since the last call or input
    orbitBefore      \* controls.enabled when debug mode was last entered

rendererVars == <<pc, cfg, usingWebGPU, isInitialized, instance>>
loopVars == <<renderRequested, animationId, rafQueue>>
debugVars == <<transformControls, labelsVisible>>
poseVars == <<camera, cube>>
assetVars == <<materials, envMaps, amInitialized, amAwait, amAgain, loads,
              waiters>>
mockVars == <<mockPc, mockLog>>
hostVars == <<other, eventListeners, store>>
obsVars == <<threw, lastOp, emitted, calls, envCall, initLog, sinceOp,
             orbitBefore>>

vars == <<pc, cfg, usingWebGPU, isInitialized, instance, renderRequested,
          animationId, rafQueue, scene, transformControls, labelsVisible,
          controls, camera, cube, faces, materials, envMaps, amInitialized,
          amAwait, amAgain, loads, waiters, mockPc, mockLog, other,
          eventListeners,
          store, threw, lastOp, emitted, calls, envCall, initLog, sinceOp,
          orbitBefore>>

----------------------------------------------------------------------------
(* Events (types.ts: RendererEvent, EventData)                             *)

Ev(type, percent, quality) ==
    [type |-> type, percent |-> percent, quality |-> quality]
Progress(p) == Ev("progress", p, "")
EnvMapLoaded(q) == Ev("envMapLoaded", -1, q)
EnvMapError(q) == Ev("envMapError", -1, q)
Ready == Ev("ready", -1, "")
ErrorEv == Ev("error", -1, "")
CameraReset == Ev("cameraReset", -1, "")

----------------------------------------------------------------------------
(* AssetManager: material presets                                          *)

\* MATERIAL_CONFIGS; roughness and metalness in hundredths
MATERIAL_CONFIGS ==
    [s \in FaceStyle |->
        CASE s = "wood"    -> [roughness |-> 80, metalness |-> 0,   color |-> 9127187]
          [] s = "glass"   -> [roughness |-> 5,  metalness |-> 0,   color |-> 8900331]
          [] s = "fur"     -> [roughness |-> 90, metalness |-> 0,   color |-> 13789470]
          [] s = "metal"   -> [roughness |-> 10, metalness |-> 100, color |-> 12632256]
          [] s = "plastic" -> [roughness |-> 50, metalness |-> 0,   color |-> 16737095]
          [] s = "gold"    -> [roughness |-> 30, metalness |-> 100, color |-> 16766720]]

\* the parameters createCube and the 'basic' presets are built with
DefaultMaterial == [roughness |-> 50, metalness |-> 0, color |-> 43775]

getMaterialKey(type, style) == <<type, style>>

\* the parameters of the material initializeMaterials stores under a key
PresetOf(type, style) ==
    IF type = "pbr" THEN MATERIAL_CONFIGS[style] ELSE DefaultMaterial

\* this.materials after materials.clear()
NoMaterials == [key \in {} |-> DefaultMaterial]

\* an initializeMaterials that builds the 'pbr' presets only
initializeMaterialsPbrOnly ==
    [key \in {getMaterialKey("pbr", s) : s \in FaceStyle} |->
        PresetOf(key[1], key[2])]

\* the map filled by initializeMaterials: 2 types x 6 styles, each key with
\* the parameters of its MeshStandardMaterial
initializeMaterials ==
    [key \in {getMaterialKey(t, s) : t \in MaterialType, s \in FaceStyle} |->
        PresetOf(key[1], key[2])]

\* getMaterial: [found |-> FALSE] stands for null
getMaterial(mats, type, style) ==
    LET key == getMaterialKey(type, style)
    IN IF key \in DOMAIN mats
       THEN [found |-> TRUE, params |-> mats[key]]
       ELSE [found |-> FALSE, params |-> DefaultMaterial]

----------------------------------------------------------------------------
(* AssetManager: environment maps.  An asset state A is the record         *)
(* [loads, envMaps, waiters].                                              *)

AssetState ==
    [loads |-> loads, envMaps |-> envMaps, waiters |-> waiters,
     req |-> envCall]

\* loadEnvMap: starts a load and stores its asset in the tier's slot,
\* whatever the slot held
loadEnvMap(A, q) ==
    LET id == Len(A.loads) + 1
    IN [A EXCEPT !.loads = Append(@, [q |-> q, st |-> "pending"]),
                 !.envMaps = [@ EXCEPT ![q] = id]]

\* a getEnvMap that starts a load on every call
getEnvMapUncached(A, q) ==
    [A |-> loadEnvMap(A, q), load |-> Len(A.loads) + 1]

\* getEnvMap: the slot's promise when the tier has a slot, else a new load.
\* Returns the asset state and the load whose promise the caller gets.
getEnvMap(A, q) ==
    IF A.envMaps[q] # 0
    THEN [A |-> A, load |-> A.envMaps[q]]
    ELSE [A |-> loadEnvMap(A, q), load |-> Len(A.loads) + 1]

\* a texture is made the background whatever showBackground says
applyEnvMapToSceneAsBackground(texture, showBackground) ==
    IF texture # NoTexture
    THEN [environment |-> texture, background |-> texture]
    ELSE [environment |-> NoTexture, background |-> BgDark]

\* applyEnvMapToScene(texture, showBackground); texture 0 is null
applyEnvMapToScene(texture, showBackground) ==
    IF texture # NoTexture /\ showBackground
    THEN [environment |-> texture, background |-> texture]
    ELSE IF texture # NoTexture /\ ~showBackground
    THEN [environment |-> texture, background |-> BgDark]
    ELSE [environment |-> NoTexture, background |-> BgDark]

\* the value a load's promise resolves to: its texture, or null
Resolved(L, id) == IF L[id].st = "ok" THEN id ELSE NoTexture

\* a loadEnvironmentMap whose resumed calls emit nothing for a null texture
RECURSIVE resumeLoadEnvironmentMapSilent(_, _, _, _)
resumeLoadEnvironmentMapSilent(ws, L, sc, live) ==
    IF ws = <<>>
    THEN [scene |-> sc, emits |-> <<>>, rest |-> <<>>, init |-> FALSE]
    ELSE LET w == Head(ws)
             settled == L[w.load].st # "pending"
             envMap == Resolved(L, w.load)
             sc1 == IF settled /\ envMap # NoTexture /\ live
                    THEN applyEnvMapToScene(envMap, w.show)
                    ELSE sc
             ev == IF envMap # NoTexture THEN <<EnvMapLoaded(w.q)>> ELSE <<>>
             r == resumeLoadEnvironmentMapSilent(Tail(ws), L, sc1, live)
         IN IF settled
            THEN [r EXCEPT !.emits = ev \o @, !.init = @ \/ w.init]
            ELSE [r EXCEPT !.rest = <<w>> \o @]

\* lines 369-385 of loadEnvironmentMap, run for every suspended call whose
\* load has settled, oldest call first.  live: the scene the asset manager
\* writes to is this.scene.  Returns the scene, the events emitted, the calls
\* still suspended and whether initialize's own call was among those resumed.
RECURSIVE resumeLoadEnvironmentMap(_, _, _, _)
resumeLoadEnvironmentMap(ws, L, sc, live) ==
    IF ws = <<>>
    THEN [scene |-> sc, emits |-> <<>>, rest |-> <<>>, init |-> FALSE]
    ELSE LET w == Head(ws)
             settled == L[w.load].st # "pending"
             envMap == Resolved(L, w.load)
             sc1 == IF settled /\ envMap # NoTexture /\ live
                    THEN applyEnvMapToScene(envMap, w.show)
                    ELSE sc
             ev == IF envMap # NoTexture
                   THEN EnvMapLoaded(w.q) ELSE EnvMapError(w.q)
             r == resumeLoadEnvironmentMap(Tail(ws), L, sc1, live)
         IN IF settled
            THEN [r EXCEPT !.emits = <<ev>> \o @, !.init = @ \/ w.init]
            ELSE [r EXCEPT !.rest = <<w>> \o @]

\* loadEnvironmentMap up to its await: the call joins the suspended calls
loadEnvironmentMap(A, q, showBackground, fromInit) ==
    LET g == getEnvMap(A, q)
    IN [g.A EXCEPT !.waiters =
            Append(@, [load |-> g.load, show |-> showBackground, q |-> q,
                       init |-> fromInit]),
                   !.req = [q |-> q, show |-> showBackground]]

\* the asset manager held by this.assetManager was built on this.scene:
\* false between `this.scene = new THREE.Scene()` and
\* `this.assetManager = new AssetManager(this.scene, ...)`
AmSceneLive == pc \notin {"devInit", "failed"}

----------------------------------------------------------------------------
(* Input controller (createControls)                                       *)

\* the literal the Renderer constructor puts in this.controls
PlaceholderControls ==
    [real |-> FALSE, enabled |-> FALSE, autoRotate |-> FALSE, keys |-> {},
     dragging |-> FALSE, listening |-> FALSE]

\* the object createControls returns, with its closure state
createControls ==
    [real |-> TRUE, enabled |-> TRUE, autoRotate |-> TRUE, keys |-> {},
     dragging |-> FALSE, listening |-> TRUE]

\* controls.setAutoRotate
setAutoRotateCtl(c, enabled) ==
    IF c.real THEN [c EXCEPT !.autoRotate = enabled] ELSE c

\* a controls.update that advances the pose without calling onNeedRender
updateSilent(F) ==
    LET c == F.controls
        moved == c.real /\ c.keys # {}
        turned == c.real /\ c.autoRotate
    IN [F EXCEPT
          !.camera = IF moved THEN [@ EXCEPT !.pos = @ + 1] ELSE @,
          !.cube = IF turned THEN [@ EXCEPT !.rot = @ + 1] ELSE @]

\* controls.update on the frame state F = [renderRequested, controls,
\* camera, cube, ...]: held keys move the camera, auto-rotate turns the mesh,
\* either one calls onNeedRender
update(F) ==
    LET c == F.controls
        moved == c.real /\ c.keys # {}
        turned == c.real /\ c.autoRotate
    IN [F EXCEPT
          !.camera = IF moved THEN [@ EXCEPT !.pos = @ + 1] ELSE @,
          !.cube = IF turned THEN [@ EXCEPT !.rot = @ + 1] ELSE @,
          !.renderRequested = IF moved \/ turned THEN TRUE ELSE @]

----------------------------------------------------------------------------
(* Render loop                                                             *)

\* what renderer.render(scene, camera) puts on the canvas of a frame state F
Drawn(F) == [camera |-> F.camera, cube |-> F.cube]

Frame == [renderRequested |-> renderRequested, controls |-> controls,
          camera |-> camera, cube |-> cube, drew |-> FALSE,
          drawn |-> [camera |-> camera, cube |-> cube]]

\* a loop body that draws on every frame, requested or not
loopBodyEveryFrame(F, initialized) ==
    IF ~initialized THEN F
    ELSE update([F EXCEPT !.drew = TRUE, !.drawn = Drawn(F),
                          !.renderRequested = FALSE])

\* a loop body that clears the flag last, after controls.update
loopBodyClearsLast(F, initialized) ==
    IF ~initialized THEN F
    ELSE IF ~F.renderRequested THEN F
    ELSE [update([F EXCEPT !.drew = TRUE, !.drawn = Drawn(F)])
            EXCEPT !.renderRequested = FALSE]

\* the body of `loop` after requestAnimationFrame(loop)
loopBody(F, initialized) ==
    IF ~initialized THEN F
    ELSE IF ~F.renderRequested THEN F
    ELSE update([F EXCEPT !.drew = TRUE, !.drawn = Drawn(F),
                          !.renderRequested = FALSE])

\* an id requestAnimationFrame has not handed out among the pending ones
FreshId(pending) ==
    CHOOSE n \in 1..(Cardinality(pending) + 1) :
        /\ n \notin pending
        /\ \A m \in 1..(n - 1) : m \in pending

\* the transforms stay inside the modelled range
InRange(F) == F.camera.pos \in Coord /\ F.cube.rot \in Coord

----------------------------------------------------------------------------
(* Initial state: `new Renderer()` (constructor) and `new MockRenderer()`   *)

\* loadEnvironmentMap has not been called
NoCall == [q |-> "", show |-> FALSE]

\* no second Renderer has been constructed
NoOther == [st |-> "none", registered |-> FALSE]

\* rendererSlice initialState, the two flags the hook toggles
initialStore == [debugMode |-> FALSE, showBackground |-> TRUE]

\* new Map(): no event has a Set
NoListeners == [e \in {} |-> <<>>]

\* emit(event, data): every callback in the event's Set is called, in
\* insertion order; an event with no entry in the Map calls nothing
emitCallbacks(listeners, event) ==
    IF event.type \in DOMAIN listeners THEN listeners[event.type] ELSE <<>>

\* the callbacks a sequence of emit() calls invokes
RECURSIVE emitAll(_, _)
emitAll(listeners, events) ==
    IF events = <<>> THEN <<>>
    ELSE emitCallbacks(listeners, Head(events)) \o emitAll(listeners, Tail(events))

NoConfig == [debugMode |-> FALSE, envMapQuality |-> "1k"]
NoSlots == [q \in EnvMapQuality |-> 0]
Quiet == [ticks |-> 0, draws |-> 0]

Init ==
    /\ pc = "new"
    /\ cfg = NoConfig
    /\ usingWebGPU = FALSE
    /\ isInitialized = FALSE
    /\ instance = TRUE
    /\ renderRequested = FALSE
    /\ animationId = 0
    /\ rafQueue = {}
    \* new THREE.Scene()
    /\ scene = [environment |-> NoTexture, background |-> BgNull]
    \* new TransformControls(...): enabled, not added to the scene
    /\ transformControls = [enabled |-> TRUE, mode |-> "translate", inScene |-> FALSE]
    /\ labelsVisible = TRUE
    /\ controls = PlaceholderControls
    /\ camera = [pos |-> 0, look |-> 0, aspect |-> 0]
    \* new THREE.Mesh(): one default material, not an array of six
    /\ cube = [real |-> FALSE, pos |-> 0, rot |-> 0, scale |-> 0]
    /\ faces = <<>>
    \* new AssetManager(this.scene, this.renderer, false)
    /\ materials = initializeMaterials
    /\ envMaps = NoSlots
    /\ amInitialized = FALSE
    /\ amAwait = 0
    /\ amAgain = 0
    /\ loads = <<>>
    /\ waiters = <<>>
    /\ mockPc = "new"
    /\ mockLog = <<>>
    /\ other = NoOther
    /\ eventListeners = NoListeners
    /\ store = initialStore
    /\ threw = FALSE
    /\ lastOp = <<"new">>
    /\ emitted = <<>>
    /\ calls = <<>>
    /\ envCall = NoCall
    /\ initLog = <<>>
    /\ sinceOp = Quiet
    /\ orbitBefore = PlaceholderControls.enabled

\* initialize has completed, dispose has not been called
IsReady == isInitialized /\ instance

\* what every call, input event and load completion records; request is
\* the latest loadEnvironmentMap call once the action has run
ObserveCall(op, raised, events, request) ==
    /\ lastOp' = op
    /\ threw' = raised
    /\ emitted' = events
    /\ calls' = emitAll(eventListeners, events)
    /\ envCall' = request
    /\ sinceOp' = Quiet

\* an action that does not call loadEnvironmentMap
Observe(op, raised, events) == ObserveCall(op, raised, events, envCall)

WithinBounds(A) ==
    /\ Len(A.loads) <= MaxLoads
    /\ Len(A.waiters) <= MaxWaiters

----------------------------------------------------------------------------
(* Renderer.initialize                                                     *)

\* lines 123-155: cube, controls, gizmo, labels, a new AssetManager and its
\* initialize() up to `await this.loadEnvMap('1k')`
CreateSceneObjects(debugMode) ==
    LET A == loadEnvMap([loads |-> loads, envMaps |-> NoSlots,
                         waiters |-> waiters], "1k")
    IN /\ WithinBounds(A)
       /\ cube' = [real |-> TRUE, pos |-> 0, rot |-> 0, scale |-> 0]
       /\ faces' = [i \in FACE_INDICES |-> DefaultMaterial]
       /\ controls' = createControls
       /\ transformControls' = [enabled |-> debugMode, mode |-> "translate",
                                inScene |-> debugMode]
       /\ labelsVisible' = debugMode
       /\ materials' = initializeMaterials
       /\ envMaps' = A.envMaps
       /\ loads' = A.loads
       /\ amInitialized' = FALSE
       /\ amAwait' = Len(A.loads)
       \* no other initialize call is suspended on the new manager
       /\ amAgain' = 0
       /\ pc' = "amInit"
       /\ orbitBefore' = createControls.enabled

\* a catch block that swallows the exception: initialize resolves
FailInitializeSwallowed ==
    /\ pc' = "done"
    /\ UNCHANGED <<cube, faces, controls, debugVars, materials, envMaps,
                   loads, amInitialized, amAwait, amAgain, orbitBefore>>

\* the catch block: emit('error'), rethrow
FailInitialize ==
    /\ pc' = "failed"
    /\ UNCHANGED <<cube, faces, controls, debugVars, materials, envMaps,
                   loads, amInitialized, amAwait, amAgain, orbitBefore>>

\* initialize(container, {debugMode, envMapQuality}) up to its first await.
\* webgpu: WebGPU.isAvailable(); ok: creating the device does not throw.
InitializeCall(debugMode, q, webgpu, ok) ==
    /\ cfg' = IF ~ok THEN NoConfig
              ELSE IF webgpu THEN [debugMode |-> debugMode, envMapQuality |-> q]
              ELSE [NoConfig EXCEPT !.envMapQuality = q]
    /\ usingWebGPU' = webgpu
    /\ scene' = [environment |-> NoTexture, background |-> BgDark]
    /\ camera' = [pos |-> 0, look |-> 0, aspect |-> 0]
    /\ IF ~ok
       THEN /\ FailInitialize
            /\ initLog' = <<Progress(0), Progress(10), Progress(20), ErrorEv>>
       ELSE IF webgpu
       THEN /\ pc' = "devInit"
            /\ initLog' = <<Progress(0), Progress(10), Progress(20)>>
            /\ UNCHANGED <<cube, faces, controls, debugVars, materials,
                           envMaps, loads, amInitialized, amAwait, amAgain,
                           orbitBefore>>
       ELSE /\ CreateSceneObjects(debugMode)
            /\ initLog' = <<Progress(0), Progress(10), Progress(20),
                            Progress(40), Progress(50)>>
    /\ Observe(<<"initialize", debugMode, q, webgpu, ok>>, ~ok, initLog')
    /\ UNCHANGED <<isInitialized, instance, loopVars, waiters, mockVars,
                   hostVars>>

\* the first initialize on this object
Initialize(debugMode, q, webgpu, ok) ==
    /\ pc = "new"
    /\ InitializeCall(debugMode, q, webgpu, ok)

\* initialize called again on the same object, after an earlier call of it
\* has resolved or rejected: the method has no guard, it runs in full
InitializeAgain(debugMode, q, webgpu, ok) ==
    /\ pc \in {"done", "failed"}
    /\ InitializeCall(debugMode, q, webgpu, ok)

\* `await this.renderer.init()` settles (WebGPU path)
DeviceInitSettles(ok) ==
    /\ pc = "devInit"
    /\ IF ok
       THEN /\ CreateSceneObjects(cfg.debugMode)
            /\ initLog' = initLog \o <<Progress(40), Progress(50)>>
            /\ Observe(<<"deviceInit", ok>>, FALSE, <<Progress(40), Progress(50)>>)
       ELSE /\ FailInitialize
            /\ initLog' = Append(initLog, ErrorEv)
            /\ Observe(<<"deviceInit", ok>>, FALSE, <<ErrorEv>>)
    /\ camera' = [camera EXCEPT !.look = 0]
    /\ cfg' = IF ok THEN [NoConfig EXCEPT !.envMapQuality = cfg.envMapQuality]
              ELSE NoConfig
    /\ UNCHANGED <<usingWebGPU, isInitialized, instance, loopVars, scene,
                   waiters, mockVars, hostVars>>

\* a startRenderLoop without the `animationId !== null` guard
startRenderLoopUnguarded(F) ==
    LET id == FreshId(rafQueue)
    IN [F |-> loopBody(F, TRUE), animationId |-> id,
        rafQueue |-> rafQueue \cup {id}]

\* startRenderLoop on the frame state F; returns F and the animation frame
\* state
startRenderLoop(F) ==
    IF animationId # 0
    THEN [F |-> F, animationId |-> animationId, rafQueue |-> rafQueue]
    ELSE LET id == FreshId(rafQueue)
         IN [F |-> loopBody(F, TRUE), animationId |-> id,
             rafQueue |-> rafQueue \cup {id}]

\* the last three events in the opposite order of progress
lastEventsReversed == <<Progress(100), Progress(95), Ready>>

\* the events initialize emits after `await this.loadEnvironmentMap(...)`
lastEvents == <<Progress(95), Progress(100), Ready>>

\* no load of the other tiers is started
initializeDefaultOnly(A) == A

\* AssetManager.initialize after `await this.loadEnvMap('1k')`: the loads of
\* the other tiers are started and not awaited
initializeBackground(A) == loadEnvMap(loadEnvMap(A, "2k"), "4k")

\* the completion callback of HDR load `id` (ok: a texture, else null) and
\* every continuation it resumes:
\*  - AssetManager.initialize after `await this.loadEnvMap('1k')`, followed by
\*    Renderer.initialize up to `await this.loadEnvironmentMap(...)`;
\*  - a second AssetManager.initialize call after its own
\*    `await this.loadEnvMap('1k')`;
\*  - the suspended loadEnvironmentMap calls waiting for this load;
\*  - Renderer.initialize from progress 95 on, when its own call was resumed.
LoadSettles(id, ok) ==
    /\ id \in 1..Len(loads)
    /\ loads[id].st = "pending"
    /\ LET L == [loads EXCEPT ![id].st = IF ok THEN "ok" ELSE "failed"]
           A0 == [loads |-> L, envMaps |-> envMaps, waiters |-> waiters,
                  req |-> envCall]
           amResumes == amAwait = id
           againResumes == amAgain = id
           A1 == IF amResumes
                 THEN loadEnvironmentMap(initializeBackground(A0),
                                         cfg.envMapQuality, TRUE, TRUE)
                 ELSE IF againResumes THEN initializeBackground(A0)
                 ELSE A0
           r == resumeLoadEnvironmentMap(A1.waiters, A1.loads, scene, AmSceneLive)
           S == startRenderLoop(Frame)
           head == IF amResumes THEN <<Progress(80)>> ELSE <<>>
           tail == IF r.init THEN lastEvents ELSE <<>>
       IN /\ Len(A1.loads) <= MaxLoads
          /\ Len(r.rest) <= MaxWaiters
          /\ loads' = A1.loads
          /\ envMaps' = A1.envMaps
          /\ waiters' = r.rest
          /\ scene' = r.scene
          /\ amInitialized' = IF amResumes \/ againResumes THEN TRUE
                              ELSE amInitialized
          /\ amAwait' = IF amResumes THEN 0 ELSE amAwait
          /\ amAgain' = IF againResumes THEN 0 ELSE amAgain
          /\ pc' = IF r.init THEN "done"
                   ELSE IF amResumes THEN "envLoad" ELSE pc
          /\ initLog' = initLog \o head \o tail
          /\ IF r.init
             THEN /\ InRange(S.F)
                  /\ isInitialized' = TRUE
                  /\ animationId' = S.animationId
                  /\ rafQueue' = S.rafQueue
                  /\ renderRequested' = TRUE
                  /\ controls' = S.F.controls
                  /\ camera' = S.F.camera
                  /\ cube' = S.F.cube
             ELSE UNCHANGED <<isInitialized, loopVars, controls, camera, cube>>
          /\ cfg' = IF amResumes THEN NoConfig ELSE cfg
          /\ ObserveCall(<<"loadSettles", id, ok>>, FALSE,
                         head \o r.emits \o tail, A1.req)
    /\ UNCHANGED <<usingWebGPU, instance, debugVars, faces, materials,
                   mockVars, hostVars, orbitBefore>>

----------------------------------------------------------------------------
(* Renderer.dispose                                                        *)

\* a stopRenderLoop that forgets the id without cancelling the callback
stopRenderLoopNoCancel ==
    [animationId |-> 0, rafQueue |-> rafQueue]

\* stopRenderLoop: cancelAnimationFrame(this.animationId)
stopRenderLoop ==
    IF animationId # 0
    THEN [animationId |-> 0, rafQueue |-> rafQueue \ {animationId}]
    ELSE [animationId |-> animationId, rafQueue |-> rafQueue]

Dispose ==
    /\ isInitialized' = FALSE
    /\ animationId' = stopRenderLoop.animationId
    /\ rafQueue' = stopRenderLoop.rafQueue
    \* controls.dispose(): the DOM listeners are removed
    /\ controls' = [controls EXCEPT !.listening = FALSE]
    \* assetManager.dispose()
    /\ envMaps' = NoSlots
    /\ materials' = NoMaterials
    /\ amInitialized' = FALSE
    \* this.eventListeners.clear()
    /\ eventListeners' = NoListeners
    \* Renderer.instance = null, whichever object it referred to
    /\ instance' = FALSE
    /\ other' = [other EXCEPT !.registered = FALSE]
    /\ Observe(<<"dispose", lastOp[1] = "dispose">>, FALSE, <<>>)
    /\ UNCHANGED <<pc, cfg, usingWebGPU, renderRequested, scene, debugVars,
                   poseVars, faces, amAwait, amAgain, loads, waiters,
                   mockVars, store, initLog,
                   orbitBefore>>

----------------------------------------------------------------------------
(* Render loop: one animation-frame callback                               *)

Tick ==
    \E id \in rafQueue :
        LET pending == rafQueue \ {id}
            next == FreshId(pending)
            F == loopBody(Frame, isInitialized)
        IN /\ sinceOp.ticks < MaxTicks
           /\ InRange(F)
           /\ animationId' = next
           /\ rafQueue' = pending \cup {next}
           /\ renderRequested' = F.renderRequested
           /\ controls' = F.controls
           /\ camera' = F.camera
           /\ cube' = F.cube
           /\ sinceOp' = [ticks |-> sinceOp.ticks + 1,
                          draws |-> sinceOp.draws + (IF F.drew THEN 1 ELSE 0)]
           /\ UNCHANGED <<rendererVars, scene, debugVars, faces, assetVars,
                          mockVars, hostVars, threw, lastOp, emitted, calls,
                          envCall,
                          initLog,
                          orbitBefore>>

----------------------------------------------------------------------------
(* Command methods.  A command is a function on the world W: the fields    *)
(* of the Renderer, of its controls and of its asset manager that commands *)
(* write, with the exception state and the events of the running call.     *)

AllFaces == -1
Omitted == -2

World ==
    [renderRequested |-> renderRequested,
     transformControls |-> transformControls,
     labelsVisible |-> labelsVisible,
     controls |-> controls,
     camera |-> camera,
     cube |-> cube,
     faces |-> faces,
     A |-> AssetState,
     threw |-> FALSE,
     emits |-> <<>>]

requestRender(W) == [W EXCEPT !.renderRequested = TRUE]

\* a statement sequence stops at the first exception
Then(W, next) == IF W.threw THEN W ELSE next

resize(W, size) ==
    requestRender([W EXCEPT !.camera.aspect = size])

\* an updateMaterials that ignores which face is targeted
updateMaterialsEveryFace(W, materialType, faceStyle, target) ==
    LET sourceMaterial == getMaterial(materials, materialType, faceStyle)
    IN IF ~sourceMaterial.found THEN W
       ELSE IF ~W.cube.real THEN [W EXCEPT !.threw = TRUE]
       ELSE [W EXCEPT !.faces =
               [index \in DOMAIN W.faces |-> sourceMaterial.params]]

\* updateMaterials; target is AllFaces or a face index
updateMaterials(W, materialType, faceStyle, target) ==
    LET sourceMaterial == getMaterial(materials, materialType, faceStyle)
    IN IF ~sourceMaterial.found THEN W
       \* cube.material of `new THREE.Mesh()` is no array: forEach is undefined
       ELSE IF ~W.cube.real THEN [W EXCEPT !.threw = TRUE]
       ELSE [W EXCEPT !.faces =
               [index \in DOMAIN W.faces |->
                  IF target = AllFaces \/ target = index
                  THEN sourceMaterial.params
                  ELSE W.faces[index]]]

\* a setMaterial that changes no face when the options are omitted
setMaterialNeedsOptions(W, type, style, options) ==
    LET W1 == IF options = Omitted THEN W
              ELSE updateMaterials(W, type, style, options)
    IN Then(W1, requestRender(W1))

\* setMaterial(type, style, options); options Omitted, AllFaces or a face
setMaterial(W, type, style, options) ==
    LET updateOptions == IF options = Omitted THEN AllFaces ELSE options
        W1 == updateMaterials(W, type, style, updateOptions)
    IN Then(W1, requestRender(W1))

\* a setDebugMode that disables the orbit input and never re-enables it
setDebugModeNoRestore(W, enabled) ==
    requestRender(
        [W EXCEPT !.transformControls.enabled = enabled,
                  !.transformControls.inScene = enabled,
                  !.controls = IF enabled
                               THEN setAutoRotateCtl([@ EXCEPT !.enabled = FALSE], FALSE)
                               ELSE @,
                  !.labelsVisible = enabled])

setDebugMode(W, enabled) ==
    requestRender(
        [W EXCEPT !.transformControls.enabled = enabled,
                  !.transformControls.inScene = enabled,
                  !.controls = IF enabled
                               THEN setAutoRotateCtl([@ EXCEPT !.enabled = FALSE], FALSE)
                               ELSE [@ EXCEPT !.enabled = TRUE],
                  !.labelsVisible = enabled])

setTransformMode(W, mode) ==
    requestRender([W EXCEPT !.transformControls.mode = mode])

setBackgroundVisible(W, visible, envMapQuality) ==
    requestRender([W EXCEPT !.A = loadEnvironmentMap(@, envMapQuality, visible, FALSE)])

setEnvMapQuality(W, quality, showBackground) ==
    requestRender([W EXCEPT !.A = loadEnvironmentMap(@, quality, showBackground, FALSE)])

\* a setAutoRotate that forgets to request a render
setAutoRotateNoRequest(W, enabled) ==
    [W EXCEPT !.controls = setAutoRotateCtl(@, enabled)]

setAutoRotate(W, enabled) ==
    requestRender([W EXCEPT !.controls = setAutoRotateCtl(@, enabled)])

emit(W, event) == [W EXCEPT !.emits = Append(@, event)]

\* a resetToDefaults that leaves the rotation of the cube alone
resetToDefaultsKeepsRotation(W, config) ==
    LET W1 == [W EXCEPT !.camera.pos = config.cameraPosition,
                        !.camera.look = config.cameraLookAt,
                        !.cube.pos = config.cubePosition,
                        !.cube.scale = config.cubeScale]
        W2 == setDebugMode(W1, config.debugMode)
        W3 == setBackgroundVisible(W2, config.showBackground, config.envMapQuality)
        W4 == setEnvMapQuality(W3, config.envMapQuality, config.showBackground)
        W5 == setMaterial(W4, config.materialType, config.faceStyle, config.selectedFace)
        W6 == Then(W5, setAutoRotate(W5, TRUE))
        W7 == Then(W6, emit(W6, CameraReset))
    IN Then(W7, requestRender(W7))

\* a resetToDefaults that switches auto-rotate on before it sets debug mode
resetToDefaultsAutoRotateFirst(W, config) ==
    LET W1 == [W EXCEPT !.camera.pos = config.cameraPosition,
                        !.camera.look = config.cameraLookAt,
                        !.cube.pos = config.cubePosition,
                        !.cube.rot = config.cubeRotation,
                        !.cube.scale = config.cubeScale]
        W2 == setAutoRotate(W1, TRUE)
        W3 == setDebugMode(W2, config.debugMode)
        W4 == setBackgroundVisible(W3, config.showBackground, config.envMapQuality)
        W5 == setEnvMapQuality(W4, config.envMapQuality, config.showBackground)
        materialOptions == IF config.selectedFace = AllFaces
                           THEN AllFaces ELSE config.selectedFace
        W6 == setMaterial(W5, config.materialType, config.faceStyle, materialOptions)
        W7 == Then(W6, emit(W6, CameraReset))
    IN Then(W7, requestRender(W7))

\* resetToDefaults(config)
resetToDefaults(W, config) ==
    LET W1 == [W EXCEPT !.camera.pos = config.cameraPosition,
                        !.camera.look = config.cameraLookAt,
                        !.cube.pos = config.cubePosition,
                        !.cube.rot = config.cubeRotation,
                        !.cube.scale = config.cubeScale]
        W2 == setDebugMode(W1, config.debugMode)
        W3 == setBackgroundVisible(W2, config.showBackground, config.envMapQuality)
        W4 == setEnvMapQuality(W3, config.envMapQuality, config.showBackground)
        materialOptions == IF config.selectedFace = AllFaces
                           THEN AllFaces ELSE config.selectedFace
        W5 == setMaterial(W4, config.materialType, config.faceStyle, materialOptions)
        W6 == Then(W5, setAutoRotate(W5, TRUE))
        W7 == Then(W6, emit(W6, CameraReset))
    IN Then(W7, requestRender(W7))

\* the state after a call that left the world W, with the continuations that
\* became runnable during the call (loadEnvironmentMap on a settled slot)
CommitRenderer(op, W) ==
    LET r == resumeLoadEnvironmentMap(W.A.waiters, W.A.loads, scene, AmSceneLive)
    IN /\ Len(W.A.loads) <= MaxLoads
       /\ Len(r.rest) <= MaxWaiters
       /\ renderRequested' = W.renderRequested
       /\ transformControls' = W.transformControls
       /\ labelsVisible' = W.labelsVisible
       /\ controls' = W.controls
       /\ camera' = W.camera
       /\ cube' = W.cube
       /\ faces' = W.faces
       /\ loads' = W.A.loads
       /\ envMaps' = W.A.envMaps
       /\ waiters' = r.rest
       /\ scene' = r.scene
       /\ ObserveCall(op, W.threw, W.emits \o r.emits, W.A.req)
       /\ orbitBefore' = IF ~transformControls.enabled /\ W.transformControls.enabled
                         THEN controls.enabled ELSE orbitBefore
       /\ UNCHANGED <<rendererVars, animationId, rafQueue, materials,
                      amInitialized, amAwait, amAgain, mockVars, other,
                      eventListeners, initLog>>

\* a command called on the Renderer directly: the store is not involved
Commit(op, W) == CommitRenderer(op, W) /\ UNCHANGED store

Resize(size) == Commit(<<"resize", size>>, resize(World, size))

SetMaterial(type, style, options) ==
    Commit(<<"setMaterial", type, style, options>>,
           setMaterial(World, type, style, options))

SetDebugMode(enabled) ==
    Commit(<<"setDebugMode", enabled>>, setDebugMode(World, enabled))

SetTransformMode(mode) ==
    Commit(<<"setTransformMode", mode>>, setTransformMode(World, mode))

SetBackgroundVisible(visible, q) ==
    Commit(<<"setBackgroundVisible", visible, q>>,
           setBackgroundVisible(World, visible, q))

SetEnvMapQuality(q, showBackground) ==
    Commit(<<"setEnvMapQuality", q, showBackground>>,
           setEnvMapQuality(World, q, showBackground))

SetAutoRotate(enabled) ==
    Commit(<<"setAutoRotate", enabled>>, setAutoRotate(World, enabled))

ResetToDefaults(config) ==
    Commit(<<"resetToDefaults", config>>, resetToDefaults(World, config))

----------------------------------------------------------------------------
(* DOM input events handled by the controls (while its listeners are       *)
(* attached)                                                               *)

MoveKeys == {"KeyW"}

onMouseDown(W) ==
    IF ~W.controls.enabled THEN W
    ELSE [W EXCEPT !.controls.dragging = TRUE, !.controls.autoRotate = FALSE]

\* the drag turns the mesh to rotation rot
onMouseMove(W, rot) ==
    IF ~W.controls.enabled \/ ~W.controls.dragging THEN W
    ELSE requestRender([W EXCEPT !.cube.rot = rot])

onMouseUp(W) == [W EXCEPT !.controls.dragging = FALSE]

\* the wheel moves the camera to position pos
onWheel(W, pos) == requestRender([W EXCEPT !.camera.pos = pos])

onKeyDown(W, key) ==
    IF key \in MoveKeys
    THEN requestRender([W EXCEPT !.controls.keys = @ \cup {key},
                                 !.controls.autoRotate = FALSE])
    ELSE IF key = "KeyR"
    THEN requestRender([W EXCEPT !.controls.autoRotate = ~@])
    ELSE W

onKeyUp(W, key) == [W EXCEPT !.controls.keys = @ \ {key}]

MouseDown == controls.listening /\ Commit(<<"mousedown">>, onMouseDown(World))

MouseMove(rot) ==
    /\ controls.listening
    /\ rot # cube.rot
    /\ Commit(<<"mousemove", rot>>, onMouseMove(World, rot))

MouseUp == controls.listening /\ Commit(<<"mouseup">>, onMouseUp(World))

Wheel(pos) ==
    /\ controls.listening
    /\ pos # camera.pos
    /\ Commit(<<"wheel", pos>>, onWheel(World, pos))

KeyDown(key) ==
    controls.listening /\ Commit(<<"keydown", key>>, onKeyDown(World, key))

KeyUp(key) ==
    controls.listening /\ Commit(<<"keyup", key>>, onKeyUp(World, key))

----------------------------------------------------------------------------
(* MockRenderer.initialize: three timers, the events after each            *)

MockInitialize ==
    /\ mockPc = "new"
    /\ mockPc' = "wait100"
    /\ UNCHANGED mockLog

\* the second timer emits nothing: progress goes from 0 to 100
mockEmitsNoHalf(stage) ==
    CASE stage = "wait100" -> <<Progress(0)>>
      [] stage = "wait50a" -> <<>>
      [] stage = "wait50b" -> <<Progress(100), Ready>>

\* the emit calls that follow each of the three awaited timers
mockEmits(stage) ==
    CASE stage = "wait100" -> <<Progress(0)>>
      [] stage = "wait50a" -> <<Progress(50)>>
      [] stage = "wait50b" -> <<Progress(100), Ready>>

MockTimer ==
    /\ mockPc \in {"wait100", "wait50a", "wait50b"}
    /\ mockPc' = CASE mockPc = "wait100" -> "wait50a"
                   [] mockPc = "wait50a" -> "wait50b"
                   [] mockPc = "wait50b" -> "done"
    /\ mockLog' = mockLog \o mockEmits(mockPc)

Mock ==
    /\ MockInitialize \/ MockTimer
    /\ UNCHANGED <<rendererVars, loopVars, scene, debugVars, controls,
                   poseVars, faces, assetVars, hostVars, obsVars>>

----------------------------------------------------------------------------
(* Renderer.on / Renderer.off (MockRenderer.on / off have the same body)   *)

\* the events and callbacks subscriptions are made with
EventsUsed == {"progress", "ready"}
Callbacks == {"cb1", "cb2"}

\* callback is in the Set the Map holds for event
Registered(listeners, event, callback) ==
    /\ event \in DOMAIN listeners
    /\ \E k \in 1..Len(listeners[event]) : listeners[event][k] = callback

\* an on() that stores the callback once more on every call
onAppend(listeners, event, callback) ==
    [e \in DOMAIN listeners \cup {event} |->
        LET old == IF e \in DOMAIN listeners THEN listeners[e] ELSE <<>>
        IN IF e = event THEN Append(old, callback) ELSE old]

\* on(event, callback): the event gets a Set if it has none, and
\* Set.add(callback) appends the callback unless the Set has it
on(listeners, event, callback) ==
    [e \in DOMAIN listeners \cup {event} |->
        LET old == IF e \in DOMAIN listeners THEN listeners[e] ELSE <<>>
        IN IF e = event /\ ~Registered(listeners, event, callback)
           THEN Append(old, callback) ELSE old]

\* a sequence without the entries equal to x
RECURSIVE Without(_, _)
Without(seq, x) ==
    IF seq = <<>> THEN <<>>
    ELSE IF Head(seq) = x THEN Without(Tail(seq), x)
    ELSE <<Head(seq)>> \o Without(Tail(seq), x)

\* off(event, callback): Set.delete(callback) on the event's Set, nothing
\* for an event without a Set
off(listeners, event, callback) ==
    IF event \in DOMAIN listeners
    THEN [listeners EXCEPT ![event] = Without(@, callback)]
    ELSE listeners

\* a call of on or off: nothing but the listener Map changes
Subscription(op, listeners) ==
    /\ eventListeners' = listeners
    /\ Observe(op, FALSE, <<>>)
    /\ UNCHANGED <<rendererVars, loopVars, scene, debugVars, controls,
                   poseVars, faces, assetVars, mockVars, other, store,
                   initLog, orbitBefore>>

On(event, callback) ==
    Subscription(<<"on", event, callback,
                   Registered(eventListeners, event, callback)>>,
                 on(eventListeners, event, callback))

Off(event, callback) ==
    Subscription(<<"off", event, callback,
                   Registered(eventListeners, event, callback)>>,
                 off(eventListeners, event, callback))

----------------------------------------------------------------------------
(* useRenderer: the object the hook returns dispatches to the store, then  *)
(* calls the Renderer that getRenderer() returned                          *)

\* rendererSlice reducers
toggleDebugMode(state) == [state EXCEPT !.debugMode = ~@]
toggleBackground(state) == [state EXCEPT !.showBackground = ~@]

\* useRenderer().setDebugMode(enabled)
HookSetDebugMode(enabled) ==
    /\ instance
    /\ store' = toggleDebugMode(store)
    /\ CommitRenderer(<<"useRenderer.setDebugMode", enabled>>,
                      setDebugMode(World, enabled))

\* useRenderer().setBackgroundVisible(visible, envMapQuality)
HookSetBackgroundVisible(visible, envMapQuality) ==
    /\ instance
    /\ store' = toggleBackground(store)
    /\ CommitRenderer(<<"useRenderer.setBackgroundVisible", visible,
                        envMapQuality>>,
                      setBackgroundVisible(World, visible, envMapQuality))

----------------------------------------------------------------------------
(* Renderer.getInstance and the Renderer it constructs once                *)
(* Renderer.instance is null again.  That object runs the same code; of    *)
(* its state only the stage of its initialize is kept.                     *)

\* the object getInstance() returns
Returned == IF instance THEN "this" ELSE "other"

\* getInstance(): Renderer.instance if it is set, else a new Renderer that
\* becomes Renderer.instance.  No third Renderer is constructed.
GetInstance ==
    /\ instance \/ other.registered \/ other.st = "none"
    /\ other' = IF instance \/ other.registered
                THEN other
                ELSE [st |-> "new", registered |-> TRUE]
    /\ Observe(<<"getInstance", Returned>>, FALSE, <<>>)
    /\ UNCHANGED <<rendererVars, loopVars, scene, debugVars, controls,
                   poseVars, faces, assetVars, mockVars, eventListeners, store,
                   initLog, orbitBefore>>

\* initialize of the second Renderer up to its first await: its canvas is
\* appended to the container
OtherInitialize ==
    /\ other.st = "new"
    /\ other' = [other EXCEPT !.st = "initializing"]
    /\ UNCHANGED <<rendererVars, loopVars, scene, debugVars, controls,
                   poseVars, faces, assetVars, mockVars, eventListeners, store,
                   obsVars>>

\* initialize of the second Renderer resumed after its last await:
\* isInitialized = true and startRenderLoop()
OtherCompletes ==
    /\ other.st = "initializing"
    /\ other' = [other EXCEPT !.st = "ready"]
    /\ UNCHANGED <<rendererVars, loopVars, scene, debugVars, controls,
                   poseVars, faces, assetVars, mockVars, eventListeners, store,
                   obsVars>>

----------------------------------------------------------------------------
(* Specifications.  They differ in the calls and input events made to the  *)
(* renderer and in the arguments those are made with.                      *)

\* the render loop with the calls and events that drive it; every HDR load
\* succeeds
NextLoop ==
    \/ \E d \in BOOLEAN, g \in BOOLEAN, ok \in BOOLEAN : Initialize(d, "1k", g, ok)
    \/ \E ok \in BOOLEAN : DeviceInitSettles(ok)
    \/ \E id \in 1..MaxLoads : LoadSettles(id, TRUE)
    \/ Dispose
    \/ Tick
    \/ \E e \in BOOLEAN : SetAutoRotate(e)
    \/ \E e \in BOOLEAN : SetDebugMode(e)
    \/ \E k \in MoveKeys \cup {"KeyR"} : KeyDown(k)
    \/ \E k \in MoveKeys : KeyUp(k)
    \/ MouseDown

SpecLoop == Init /\ [][NextLoop]_vars

\* the snapshot the store starts with (rendererSlice.ts: initialState);
\* selectedFace AllFaces stands for null
initialState ==
    [debugMode |-> FALSE, showBackground |-> TRUE, envMapQuality |-> "1k",
     materialType |-> "basic", faceStyle |-> "wood", selectedFace |-> AllFaces,
     cameraPosition |-> 0, cameraLookAt |-> 0, cubePosition |-> 0,
     cubeRotation |-> 0, cubeScale |-> 0]

\* a snapshot that differs from initialState in every field
editedState ==
    [debugMode |-> TRUE, showBackground |-> FALSE, envMapQuality |-> "4k",
     materialType |-> "pbr", faceStyle |-> "metal", selectedFace |-> 3,
     cameraPosition |-> MaxCoord, cameraLookAt |-> MaxCoord,
     cubePosition |-> MaxCoord, cubeRotation |-> MaxCoord, cubeScale |-> MaxCoord]

\* the values of a field of RendererResetConfig
FieldValues(f) ==
    CASE f \in {"debugMode", "showBackground"} -> BOOLEAN
      [] f = "envMapQuality" -> EnvMapQuality
      [] f = "materialType" -> MaterialType
      [] f = "faceStyle" -> StylesUsed
      [] f = "selectedFace" -> {AllFaces} \cup FACE_INDICES
      [] OTHER -> Coord

\* the snapshots resetToDefaults is called with: editedState, and
\* initialState with one field set to any of its values
ResetConfigs ==
    {editedState} \cup
    {[initialState EXCEPT ![fv[1]] = fv[2]] :
        fv \in UNION {{<<f, v>> : v \in FieldValues(f)} : f \in DOMAIN initialState}}

\* the environment commands, called for the largest tier before, during and
\* after initialize; every HDR load succeeds or fails
NextEnv ==
    \/ \E q \in {"1k", "4k"}, g \in BOOLEAN, ok \in BOOLEAN :
          Initialize(FALSE, q, g, ok)
    \/ \E ok \in BOOLEAN : DeviceInitSettles(ok)
    \/ \E id \in 1..MaxLoads, ok \in BOOLEAN : LoadSettles(id, ok)
    \/ \E s \in BOOLEAN : SetEnvMapQuality("4k", s)
    \/ \E s \in BOOLEAN : SetBackgroundVisible(s, "4k")

SpecEnv == Init /\ [][NextEnv]_vars

\* setMaterial with every type and target, before, during and after an
\* initialize whose HDR loads succeed
NextMat ==
    \/ \E ok \in BOOLEAN : Initialize(FALSE, "1k", FALSE, ok)
    \/ \E id \in 1..MaxLoads : LoadSettles(id, TRUE)
    \/ \E t \in MaterialType, f \in StylesUsed,
          o \in {Omitted, AllFaces} \cup FACE_INDICES : SetMaterial(t, f, o)

SpecMat == Init /\ [][NextMat]_vars

\* resetToDefaults called on a Ready renderer; every HDR load succeeds or
\* fails
NextReset ==
    \/ \E ok \in BOOLEAN : Initialize(FALSE, "1k", FALSE, ok)
    \/ \E id \in 1..MaxLoads, ok \in BOOLEAN : LoadSettles(id, ok)
    \/ IsReady /\ \E config \in ResetConfigs : ResetToDefaults(config)

SpecReset == Init /\ [][NextReset]_vars

\* assetManager.applyEnvMapToScene(texture, showBackground) called on the
\* manager that initialize built on this.scene
ApplyEnvMapToScene(texture, showBackground) ==
    /\ pc \in {"amInit", "envLoad", "done"}
    /\ scene' = applyEnvMapToScene(texture, showBackground)
    /\ Observe(<<"applyEnvMapToScene", texture, showBackground>>, FALSE, <<>>)
    /\ UNCHANGED <<rendererVars, loopVars, debugVars, controls, poseVars, faces,
                   materials, envMaps, amInitialized, amAwait, amAgain, loads,
                   waiters, mockVars, hostVars, initLog, orbitBefore>>

\* applyEnvMapToScene applied to null and to every texture, with either
\* flag, on the scenes an initialize produces
NextApply ==
    \/ \E ok \in BOOLEAN : Initialize(FALSE, "1k", FALSE, ok)
    \/ \E id \in 1..MaxLoads, ok \in BOOLEAN : LoadSettles(id, ok)
    \/ \E texture \in 0..MaxLoads, showBackground \in BOOLEAN :
          ApplyEnvMapToScene(texture, showBackground)

SpecApply == Init /\ [][NextApply]_vars

\* a page that mounts, unmounts and mounts again: getInstance, initialize
\* and dispose of this Renderer, then getInstance and initialize of the
\* next one, while the frames of this one keep being delivered
NextSingleton ==
    \/ \E ok \in BOOLEAN : Initialize(FALSE, "1k", FALSE, ok)
    \/ \E id \in 1..MaxLoads : LoadSettles(id, TRUE)
    \/ Dispose
    \/ Tick
    \/ GetInstance
    \/ OtherInitialize
    \/ OtherCompletes

SpecSingleton == Init /\ [][NextSingleton]_vars

\* subscriptions made and removed before, during and after an initialize
\* whose events are delivered to them
NextEvents ==
    \/ \E ok \in BOOLEAN : Initialize(FALSE, "1k", FALSE, ok)
    \/ \E id \in 1..MaxLoads : LoadSettles(id, TRUE)
    \/ \E event \in EventsUsed, callback \in Callbacks : On(event, callback)
    \/ \E event \in EventsUsed, callback \in Callbacks : Off(event, callback)

SpecEvents == Init /\ [][NextEvents]_vars

\* the two flag commands called through the hook with either value, before
\* and after initialize completes
NextHook ==
    \/ \E ok \in BOOLEAN : Initialize(FALSE, "1k", FALSE, ok)
    \/ \E id \in 1..MaxLoads : LoadSettles(id, TRUE)
    \/ \E enabled \in BOOLEAN : HookSetDebugMode(enabled)
    \/ \E visible \in BOOLEAN : HookSetBackgroundVisible(visible, "1k")

SpecHook == Init /\ [][NextHook]_vars

\* setEnvMapQuality called on a Ready renderer for the two tiers whose
\* loads initialize leaves pending; the loads succeed, in any order
NextOrder ==
    \/ \E ok \in BOOLEAN : Initialize(FALSE, "1k", FALSE, ok)
    \/ \E id \in 1..MaxLoads : LoadSettles(id, TRUE)
    \/ IsReady /\ \E q \in {"2k", "4k"}, s \in BOOLEAN : SetEnvMapQuality(q, s)

SpecOrder == Init /\ [][NextOrder]_vars

\* a component that unmounts at any point of its initialize: initialize is
\* called on the undisposed Renderer only, dispose at any time, also with
\* an environment change pending, and the device, the loads and the frames
\* go on
NextUnmount ==
    \/ instance /\ \E g \in BOOLEAN, ok \in BOOLEAN :
                      Initialize(FALSE, "1k", g, ok)
    \/ \E ok \in BOOLEAN : DeviceInitSettles(ok)
    \/ \E id \in 1..MaxLoads : LoadSettles(id, TRUE)
    \/ Dispose
    \/ Tick
    \/ IsReady /\ SetEnvMapQuality("4k", TRUE)

SpecUnmount == Init /\ [][NextUnmount]_vars

\* an environment change on a Ready renderer whose auto-rotate may have
\* been switched off, with the frames the browser keeps delivering:
\* requestAnimationFrame runs a scheduled callback as long as one is pending
NextStale ==
    \/ \E ok \in BOOLEAN : Initialize(FALSE, "1k", FALSE, ok)
    \/ \E id \in 1..MaxLoads : LoadSettles(id, TRUE)
    \/ Tick
    \/ IsReady /\ \E enabled \in BOOLEAN : SetAutoRotate(enabled)
    \/ IsReady /\ \E s \in BOOLEAN : SetEnvMapQuality("4k", s)

SpecStale == Init /\ [][NextStale]_vars /\ WF_vars(Tick)

\* every command of the Renderer with the frames of the render loop in
\* between; the commands that start no texture load are also called before
\* initialize and while it is pending
NextCommands ==
    \/ Initialize(FALSE, "1k", FALSE, TRUE)
    \/ \E id \in 1..MaxLoads : LoadSettles(id, TRUE)
    \/ Tick
    \/ Resize(1)
    \/ SetMaterial("pbr", "metal", Omitted)
    \/ SetDebugMode(TRUE)
    \/ SetTransformMode("rotate")
    \/ IsReady /\ SetBackgroundVisible(FALSE, "1k")
    \/ IsReady /\ SetEnvMapQuality("1k", TRUE)
    \/ SetAutoRotate(FALSE)
    \/ IsReady /\ ResetToDefaults(initialState)

SpecCommands == Init /\ [][NextCommands]_vars

\* initialize, dispose and the frames of the loop on one Renderer object,
\* with initialize called again after an earlier call has settled
NextRestart ==
    \/ \E ok \in BOOLEAN : Initialize(FALSE, "1k", FALSE, ok)
    \/ InitializeAgain(FALSE, "1k", FALSE, TRUE)
    \/ \E id \in 1..MaxLoads : LoadSettles(id, TRUE)
    \/ Dispose
    \/ Tick

SpecRestart == Init /\ [][NextRestart]_vars

\* the environment commands called on a Renderer after its dispose; the
\* Renderer is initialized at most once, before the dispose, and disposed once
NextDisposed ==
    \/ instance /\ Initialize(FALSE, "1k", FALSE, TRUE)
    \/ \E id \in 1..MaxLoads : LoadSettles(id, TRUE)
    \/ instance /\ Dispose
    \/ ~instance /\ SetEnvMapQuality("4k", TRUE)
    \/ ~instance /\ SetBackgroundVisible(FALSE, "4k")
    \/ ~instance /\ ResetToDefaults(initialState)

SpecDisposed == Init /\ [][NextDisposed]_vars

\* assetManager.initialize() called once more on the manager whose initialize
\* Renderer.initialize has called: it returns when isInitialized is set, and
\* otherwise runs up to `await this.loadEnvMap('1k')`
AmInitializeAgain ==
    /\ pc \in {"amInit", "envLoad", "done"}
    /\ amAgain = 0
    /\ IF amInitialized
       THEN UNCHANGED <<loads, envMaps, amAgain>>
       ELSE LET A == loadEnvMap(AssetState, "1k")
            IN /\ WithinBounds(A)
               /\ loads' = A.loads
               /\ envMaps' = A.envMaps
               /\ amAgain' = Len(A.loads)
    /\ Observe(<<"amInitialize", amInitialized>>, FALSE, <<>>)
    /\ UNCHANGED <<rendererVars, loopVars, scene, debugVars, controls, poseVars,
                   faces, materials, amInitialized, amAwait, waiters, mockVars,
                   hostVars, initLog, orbitBefore>>

\* a second AssetManager.initialize call at any point after the first one
NextAmInit ==
    \/ Initialize(FALSE, "1k", FALSE, TRUE)
    \/ \E id \in 1..MaxLoads, ok \in BOOLEAN : LoadSettles(id, ok)
    \/ AmInitializeAgain

SpecAmInit == Init /\ [][NextAmInit]_vars

\* the calls that read the material presets or load environments, on a
\* Renderer that is initialized once and may be disposed once
NextCatalogue ==
    \/ instance /\ Initialize(FALSE, "1k", FALSE, TRUE)
    \/ \E id \in 1..MaxLoads, ok \in BOOLEAN : LoadSettles(id, ok)
    \/ \E t \in MaterialType, o \in {AllFaces, 3} : SetMaterial(t, "metal", o)
    \/ IsReady /\ ResetToDefaults(editedState)
    \/ IsReady /\ SetEnvMapQuality("4k", FALSE)
    \/ instance /\ Dispose

SpecCatalogue == Init /\ [][NextCatalogue]_vars

\* the initialize calls of a Renderer and of a MockRenderer, with every
\* configuration and every outcome of device creation and HDR loads
NextInit ==
    \/ \E d \in BOOLEAN, q \in EnvMapQuality, g \in BOOLEAN, ok \in BOOLEAN :
          Initialize(d, q, g, ok)
    \/ \E ok \in BOOLEAN : DeviceInitSettles(ok)
    \/ \E id \in 1..MaxLoads, ok \in BOOLEAN : LoadSettles(id, ok)
    \/ Mock

SpecInit == Init /\ [][NextInit]_vars

----------------------------------------------------------------------------
(* Properties                                                              *)

\* the last action completed initialize (it emitted 'ready')
JustInitialized ==
    /\ lastOp[1] = "loadSettles"
    /\ emitted # <<>>
    /\ emitted[Len(emitted)] = Ready

\* nothing asks for frames: no auto-rotation, no movement key held
Still == ~controls.autoRotate /\ controls.keys = {}

\* C1 (as stated): between commands the loop does no GPU work; in
\* particular, after initialize completes and before any command or input,
\* the frames that run draw nothing.
C1_IdleAfterInitialize ==
    (isInitialized /\ JustInitialized) => sinceOp.draws = 0

\* C1 (amended): on an initialized renderer with auto-rotation off and no
\* movement key held, the frames that run after a call or input event draw
\* at most once (the frame that serves the pending request), and after the
\* first of them no render request is left pending.
C1_DrawsOnlyOnDemand ==
    (isInitialized /\ Still) =>
        /\ sinceOp.draws <= 1
        /\ sinceOp.ticks >= 1 => ~renderRequested

\* two frames have run on a still, initialized renderer; only one drew
C1_Witness ==
    /\ isInitialized /\ Still
    /\ sinceOp.ticks >= 2
    /\ sinceOp.draws = 1

\* the HDR loads started for tier q
LoadsOf(L, q) == {id \in 1..Len(L) : L[id].q = q}

\* a call that reaches getEnvMap(q): with no slot for q it starts exactly one
\* load of q and stores it in the slot, with a slot it starts none and keeps
\* the slot; either way the caller is given the slot's load: it is suspended
\* on it, or, the load being settled, has resumed with its value
Coalesced(q) ==
    LET given == envMaps'[q]
    IN /\ given # 0
       /\ IF envMaps[q] = 0
          THEN /\ loads' = Append(loads, [q |-> q, st |-> "pending"])
               /\ given = Len(loads')
          ELSE /\ loads' = loads
               /\ given = envMaps[q]
       /\ IF loads'[given].st = "pending"
          THEN /\ Len(waiters') = Len(waiters) + 1
               /\ waiters'[Len(waiters')].load = given
               /\ emitted' = <<>>
          ELSE /\ waiters' = waiters
               /\ emitted' = <<IF Resolved(loads', given) # NoTexture
                                THEN EnvMapLoaded(q) ELSE EnvMapError(q)>>

\* C2: every call that reaches getEnvMap(q) is coalesced: calls made while
\* the tier has no load start one load between them (the first starts it,
\* the others join it) and all are resolved by that one load.
C2_RequestCoalescing ==
    [][\A q \in EnvMapQuality, s \in BOOLEAN :
          (SetEnvMapQuality(q, s) \/ SetBackgroundVisible(s, q)) => Coalesced(q)]_vars

\* two calls are suspended on the same load, the only load of their tier
C2_Witness ==
    \E i, j \in 1..Len(waiters) :
        /\ i < j
        /\ ~waiters[i].init /\ ~waiters[j].init
        /\ waiters[i].load = waiters[j].load
        /\ LoadsOf(loads, waiters[i].q) = {waiters[i].load}
        /\ lastOp[1] \in {"setEnvMapQuality", "setBackgroundVisible"}

\* C4 (as stated): when the requested tier failed to load, envMapError is
\* emitted and the scene ends with no environment and the flat dark
\* background, with the render loop still scheduled.
C4_FailureDegradesScene ==
    (/\ IsReady
     /\ emitted # <<>>
     /\ emitted[Len(emitted)].type = "envMapError") =>
        /\ scene.environment = NoTexture
        /\ scene.background = BgDark
        /\ animationId # 0

\* a step that is a call of one of the eight commands
CommandStep ==
    \/ \E size \in Coord : Resize(size)
    \/ \E t \in MaterialType, f \in StylesUsed,
          o \in {Omitted, AllFaces} \cup FACE_INDICES : SetMaterial(t, f, o)
    \/ \E e \in BOOLEAN : SetDebugMode(e)
    \/ \E m \in TransformMode : SetTransformMode(m)
    \/ \E q \in EnvMapQuality, e \in BOOLEAN :
          SetBackgroundVisible(e, q) \/ SetEnvMapQuality(q, e)
    \/ \E e \in BOOLEAN : SetAutoRotate(e)
    \/ \E config \in ResetConfigs : ResetToDefaults(config)

\* initialize has not been called, or is suspended at one of its awaits
BeforeReady == ~isInitialized /\ pc \in {"new", "devInit", "amInit", "envLoad"}

\* C5 (as stated): a command called before initialize, or while initialize
\* is pending, throws nothing, starts no texture load and leaves the scene
\* state unchanged.
C5_NoOpBeforeReady ==
    [][(BeforeReady /\ CommandStep) =>
          /\ ~threw'
          /\ loads' = loads
          /\ UNCHANGED <<scene, debugVars, controls, poseVars, faces>>]_vars

\* C3: when dispose returns, no animation-frame callback of this renderer is
\* left scheduled, the loop's id is null and no error was raised; this
\* holds for a first dispose, for a repeated one and for a dispose without a
\* completed initialize.
C3_DisposeStopsLoop ==
    lastOp[1] = "dispose" =>
        /\ ~threw
        /\ animationId = 0
        /\ rafQueue = {}
        /\ ~isInitialized

\* dispose called twice in a row on a renderer whose initialize had completed
C3_Witness ==
    /\ lastOp = <<"dispose", TRUE>>
    /\ pc = "done"
    /\ rafQueue = {}

\* roughness, metalness and colour of the catalogue entry of (type, style):
\* the style's row of MATERIAL_CONFIGS for 'pbr', the basic defaults otherwise
Catalogue(type, style) ==
    IF type = "pbr" THEN MATERIAL_CONFIGS[style]
    ELSE [roughness |-> 50, metalness |-> 0, color |-> 43775]

\* C6: on a Ready renderer, a setMaterial(type, style, {targetFace: i}) call
\* leaves face i with the catalogue entry of (type, style) and every other
\* face with the parameters it had before the call.
C6_FaceTargeting ==
    [][(/\ IsReady
        /\ lastOp'[1] = "setMaterial"
        /\ sinceOp'.ticks = 0
        /\ lastOp'[4] \in FACE_INDICES) =>
          /\ DOMAIN faces' = FACE_INDICES
          /\ faces'[lastOp'[4]] = Catalogue(lastOp'[2], lastOp'[3])
          /\ \A j \in FACE_INDICES \ {lastOp'[4]} : faces'[j] = faces[j]
          /\ ~threw']_vars

\* setMaterial('pbr', 'metal', {targetFace: 3}) has just changed face 3 of a
\* Ready renderer; another face differs from it
C6_Witness ==
    /\ IsReady
    /\ lastOp = <<"setMaterial", "pbr", "metal", 3>>
    /\ faces[3] = MATERIAL_CONFIGS["metal"]
    /\ \E j \in FACE_INDICES : faces[j] # faces[3]

\* C7: on a Ready renderer, after setMaterial(type, style, {allFaces: true})
\* and after setMaterial(type, style) all six faces carry the catalogue entry
\* of (type, style).
C7_AllFacesTargeting ==
    (/\ IsReady
     /\ lastOp[1] = "setMaterial"
     /\ lastOp[4] \in {AllFaces, Omitted}) =>
        /\ DOMAIN faces = FACE_INDICES
        /\ \A i \in FACE_INDICES : faces[i] = Catalogue(lastOp[2], lastOp[3])
        /\ ~threw

\* setMaterial('pbr', 'wood') with the options omitted has repainted a cube
\* of a Ready renderer
C7_Witness ==
    /\ IsReady
    /\ lastOp = <<"setMaterial", "pbr", "wood", Omitted>>
    /\ \A i \in FACE_INDICES : faces[i] = MATERIAL_CONFIGS["wood"]

\* C8: on the input controller createControls returns, after
\* setDebugMode(true) the orbit input is disabled and auto-rotation is off;
\* after setDebugMode(false) the orbit input has the enabled state it had
\* when debug mode was entered.
C8_DebugOrbitExclusive ==
    (controls.real /\ lastOp[1] = "setDebugMode") =>
        IF lastOp[2]
        THEN ~controls.enabled /\ ~controls.autoRotate /\ transformControls.enabled
        ELSE controls.enabled = orbitBefore /\ ~transformControls.enabled

\* debug mode was entered and left again on a Ready renderer
C8_Witness ==
    /\ IsReady /\ controls.real
    /\ lastOp = <<"setDebugMode", FALSE>>
    /\ controls.enabled /\ orbitBefore
    /\ ~controls.autoRotate

\* the live state a snapshot is compared with
PoseMatches(c) ==
    /\ camera.pos = c.cameraPosition
    /\ camera.look = c.cameraLookAt
    /\ cube.pos = c.cubePosition
    /\ cube.rot = c.cubeRotation
    /\ cube.scale = c.cubeScale

DebugMatches(c) ==
    /\ transformControls.enabled = c.debugMode
    /\ labelsVisible = c.debugMode

MaterialMatches(c) ==
    \A i \in FACE_INDICES :
        (c.selectedFace = AllFaces \/ c.selectedFace = i) =>
            faces[i] = Catalogue(c.materialType, c.faceStyle)

\* the scene is lit by a texture of the snapshot's tier, shown as the
\* background exactly when the snapshot shows the background
EnvMatches(sc, c) ==
    /\ sc.environment # NoTexture
    /\ loads[sc.environment].q = c.envMapQuality
    /\ sc.background = IF c.showBackground THEN sc.environment ELSE BgDark

CameraResets(events) ==
    Cardinality({k \in 1..Len(events) : events[k] = CameraReset})

ResetAtReturn ==
    (/\ IsReady
     /\ lastOp[1] = "resetToDefaults"
     /\ sinceOp.ticks = 0) =>
        /\ ~threw
        /\ PoseMatches(lastOp[2])
        /\ DebugMatches(lastOp[2])
        /\ MaterialMatches(lastOp[2])
        /\ CameraResets(emitted) = 1
        /\ loads[envMaps[lastOp[2].envMapQuality]].st = "ok" =>
               EnvMatches(scene, lastOp[2])

\* C9 (amended), after the return: when the load of the snapshot's tier was
\* pending at the return and succeeds before any other call, environment
\* and background match the snapshot from then on.
ResetWhenLoaded ==
    (/\ IsReady
     /\ lastOp[1] = "resetToDefaults"
     /\ lastOp'[1] = "loadSettles"
     /\ lastOp'[2] = envMaps[lastOp[2].envMapQuality]
     /\ lastOp'[3]) =>
        EnvMatches(scene', lastOp[2])

ProgressMonotone(log) ==
    LET P == {k \in 1..Len(log) : log[k].type = "progress"}
    IN /\ \A k \in P : log[k].percent \in 0..100
       /\ \A j, k \in P : j < k => log[j].percent <= log[k].percent
       /\ \A k \in 1..Len(log) :
             log[k] = Ready =>
                /\ k = Len(log)
                /\ k > 1
                /\ log[k - 1] = Progress(100)

\* C10: the progress events of an initialize call, of the Renderer and of
\* the MockRenderer, carry non-decreasing percents in 0..100, and when the
\* call completes the last of them is 100, directly followed by 'ready'.
C10_ProgressMonotonicity ==
    /\ ProgressMonotone(initLog)
    /\ ProgressMonotone(mockLog)
    /\ (pc = "done") = (Ready \in {initLog[k] : k \in 1..Len(initLog)})
    /\ (mockPc = "done") = (Ready \in {mockLog[k] : k \in 1..Len(mockLog)})

\* both initialize calls have completed
C10_Witness ==
    /\ pc = "done" /\ mockPc = "done"
    /\ Len(initLog) = 9 /\ initLog[9] = Ready /\ initLog[8] = Progress(100)
    /\ mockLog = <<Progress(0), Progress(50), Progress(100), Ready>>

\* the number of occurrences of event e in a log
Count(log, e) == Cardinality({k \in 1..Len(log) : log[k] = e})

\* the last action was a stage of initialize throwing: creating the
\* device, or the awaited device initialisation
StageThrew ==
    \/ lastOp[1] = "initialize" /\ ~lastOp[5]
    \/ lastOp[1] = "deviceInit" /\ ~lastOp[2]

NewManager == pc' = "amInit" /\ pc # "amInit"

\* C12: a failed load never throws and resolves its future to null; the
\* slot of its tier then holds that settled null asset for good: within one
\* AssetManager the slot is not replaced and no further load of the tier is
\* started, so every later getEnvMap returns the same null.
C12_FailureIsFinal ==
    [][~NewManager =>
          \A q \in EnvMapQuality :
              (envMaps[q] # 0 /\ loads[envMaps[q]].st = "failed") =>
                  /\ envMaps'[q] = envMaps[q]
                  /\ Resolved(loads', envMaps'[q]) = NoTexture
                  /\ LoadsOf(loads', q) = LoadsOf(loads, q)]_vars


\* every load of tier q that was started has failed
ForcedToFail(q) ==
    /\ LoadsOf(loads, q) # {}
    /\ \A id \in LoadsOf(loads, q) : loads[id].st = "failed"

\* C13 (as stated): for a tier whose loads are forced to fail, no action
\* emits envMapError for that tier more than once, and none emits
\* envMapLoaded for it.
C13_ErrorOncePerTier ==
    \A q \in EnvMapQuality :
        ForcedToFail(q) =>
            /\ Count(emitted, EnvMapError(q)) <= 1
            /\ Count(emitted, EnvMapLoaded(q)) = 0


\* C14: after applyEnvMapToScene(texture, showBackground) the scene's
\* environment is the texture (null for a null texture) and its background
\* is the texture if the texture is non-null and showBackground is true,
\* the flat dark color otherwise, whatever the scene was before.
C14_ApplyEnvMapToScene ==
    lastOp[1] = "applyEnvMapToScene" =>
        /\ scene.environment = lastOp[2]
        /\ scene.background = IF lastOp[2] # NoTexture /\ lastOp[3]
                               THEN lastOp[2] ELSE BgDark

\* a texture applied with showBackground false lights the scene over the
\* flat dark background
C14_Witness ==
    /\ lastOp = <<"applyEnvMapToScene", 1, FALSE>>
    /\ scene = [environment |-> 1, background |-> BgDark]


\* the step in which the promise of AssetManager.initialize resolves
ManagerResolves == amInitialized' /\ ~amInitialized

\* C15: when AssetManager.initialize resolves, the load in the 1k slot has
\* settled, with a texture or with null, and loads of 2k and 4k have been
\* started in that step, neither of them settled.
C15_DefaultTierSettled ==
    [][ManagerResolves =>
          /\ envMaps'["1k"] # 0
          /\ loads'[envMaps'["1k"]].st \in {"ok", "failed"}
          /\ \A q \in {"2k", "4k"} :
                /\ envMaps'[q] \in (1..Len(loads')) \ (1..Len(loads))
                /\ loads'[envMaps'[q]] = [q |-> q, st |-> "pending"]]_vars

\* the manager is initialized with the 1k load failed and the 2k and 4k
\* loads pending
C15_Witness ==
    /\ amInitialized
    /\ lastOp = <<"loadSettles", 1, FALSE>>
    /\ loads[envMaps["1k"]].st = "failed"
    /\ loads[envMaps["2k"]].st = "pending"
    /\ loads[envMaps["4k"]].st = "pending"


\* this Renderer has a running render loop: a frame callback is scheduled
LoopRunning == rafQueue # {}

\* C16 (as stated): getInstance returns this Renderer while it is
\* Renderer.instance, and this Renderer and the one constructed after it
\* never both have a running render loop.
C16_Singleton ==
    /\ (lastOp[1] = "getInstance" /\ instance) => lastOp[2] = "this"
    /\ ~(LoopRunning /\ other.st = "ready")


\* dispose has been called on this Renderer
Disposed == ~instance

\* C17 (as stated): a Renderer whose initialize has failed or that has been
\* disposed is not Ready: isInitialized is false.
C17_NoReadyAfterEnd ==
    (pc = "failed" \/ Disposed) => ~isInitialized


\* the number of emitted events of the last action that callback is
\* registered for
Deliveries(callback) ==
    Cardinality({k \in 1..Len(emitted) :
                    Registered(eventListeners, emitted[k].type, callback)})

\* one step of the listener Map and of the callbacks invoked
SetSemanticsStep ==
     /\ \A e \in DOMAIN eventListeners', cb \in Callbacks :
           Count(eventListeners'[e], cb) <= 1
     /\ lastOp'[1] \notin {"on", "off", "dispose"} =>
           \A cb \in Callbacks : Count(calls', cb) = Deliveries(cb)'
     /\ \A e \in EventsUsed, cb \in Callbacks :
           /\ On(e, cb) =>
                 /\ Registered(eventListeners', e, cb)
                 /\ Registered(eventListeners, e, cb) =>
                       eventListeners' = eventListeners
           /\ Off(e, cb) =>
                 /\ ~Registered(eventListeners', e, cb)
                 /\ ~Registered(eventListeners, e, cb) =>
                       eventListeners' = eventListeners
           /\ (On(e, cb) \/ Off(e, cb)) =>
                 \A e2 \in EventsUsed, cb2 \in Callbacks :
                     <<e2, cb2>> # <<e, cb>> =>
                         (Registered(eventListeners', e2, cb2)
                            <=> Registered(eventListeners, e2, cb2))

\* C18: subscriptions have set semantics.  No Set holds a callback twice
\* and every callback is invoked once for each emitted event it is
\* registered for; on(event, cb) leaves cb registered and changes nothing
\* when it was registered already; off(event, cb) leaves cb unregistered,
\* keeps every other registration and changes nothing when cb was not
\* registered.
C18_SetSemantics ==
    [][SetSemanticsStep]_vars

\* on was called for a callback that was registered already and the Set
\* holds it once
C18_Witness ==
    /\ lastOp = <<"on", "progress", "cb1", TRUE>>
    /\ Count(eventListeners["progress"], "cb1") = 1


\* C19 (as stated): after a hook call setDebugMode(e) the store's debugMode
\* is e, and after a hook call setBackgroundVisible(v, q) the store's
\* showBackground is v.
C19_MirrorInSync ==
    /\ lastOp[1] = "useRenderer.setDebugMode" => store.debugMode = lastOp[2]
    /\ lastOp[1] = "useRenderer.setBackgroundVisible" =>
          store.showBackground = lastOp[2]


\* the events of a complete MockRenderer.initialize
MockSequence == <<Progress(0), Progress(50), Progress(100), Ready>>

\* the events emitted so far are the first ones of MockSequence, all of
\* them once the call has completed
MockInOrder ==
    /\ Len(mockLog) <= Len(MockSequence)
    /\ mockLog = SubSeq(MockSequence, 1, Len(mockLog))
    /\ Count(mockLog, ErrorEv) = 0
    /\ (mockPc = "done") = (mockLog = MockSequence)

\* a step of MockRenderer.initialize leaves device, scene, loop and HDR
\* loads alone
MockIsInert ==
    mockPc' # mockPc => UNCHANGED <<usingWebGPU, scene, loopVars, assetVars>>

\* C20: MockRenderer.initialize emits progress(0), progress(50),
\* progress(100), ready, in that order and nothing else, all of them by the
\* time it completes, and none of its steps touches the device, the scene,
\* the render loop or the HDR loads.
C20_MockSequence == []MockInOrder /\ [][MockIsInert]_vars

\* the mock's initialize has completed while the Renderer was never
\* initialized
C20_Witness ==
    /\ mockPc = "done"
    /\ Len(mockLog) = 4 /\ mockLog[4] = Ready
    /\ pc = "new" /\ loads = <<>> /\ rafQueue = {}


\* C21 (as stated): at all times cube.material is an array of six
\* materials, one for each face index 0..5.
C21_SixFaceMaterials == DOMAIN faces = FACE_INDICES


\* no HDR load is pending and no loadEnvironmentMap call is suspended
AllSettled ==
    /\ waiters = <<>>
    /\ \A id \in 1..Len(loads) : loads[id].st # "pending"

\* C22 (as stated): once every load has settled on a Ready renderer, the
\* scene's environment and background are the ones the latest
\* loadEnvironmentMap call asked for.
C22_LatestCallWins ==
    (IsReady /\ AllSettled /\ envCall # NoCall) =>
        scene = applyEnvMapToScene(Resolved(loads, envMaps[envCall.q]),
                                   envCall.show)


\* C23 (as stated): within one AssetManager a tier's slot, once created,
\* keeps the load it was created with, and no second load of that tier is
\* started.
C23_SlotWrittenOnce ==
    [][~NewManager =>
          \A q \in EnvMapQuality :
              envMaps[q] # 0 =>
                  /\ envMaps'[q] = envMaps[q]
                  /\ LoadsOf(loads', q) = LoadsOf(loads, q)]_vars


\* C24 (as stated): once dispose has been called, whether initialize was
\* suspended or not, the Renderer is not Ready and has no animation-frame
\* callback scheduled.
C24_NoLoopAfterDispose ==
    Disposed =>
        /\ ~isInitialized
        /\ animationId = 0
        /\ rafQueue = {}


\* the completion of load id was the last action: it resumed a suspended
\* command call, which applied the texture to the scene of a Ready
\* renderer, and no frame has drawn since
AppliedByLoad(id) ==
    /\ lastOp = <<"loadSettles", id, TRUE>>
    /\ IsReady
    /\ emitted = <<EnvMapLoaded(loads[id].q)>>
    /\ scene.environment = id
    /\ sinceOp.draws = 0

\* the next frame would move camera or cube out of the modelled range
FrameOutOfRange == ~InRange(loopBody(Frame, isInitialized))

C26_CompletionAfterDispose ==
    [][(lastOp[1] = "dispose" /\ lastOp'[1] = "loadSettles") =>
          /\ scene' = scene
          /\ faces' = faces
          /\ envMaps' = envMaps
          /\ Len(loads') = Len(loads)
          /\ emitted' = <<>>]_vars

\* the methods of the Renderer that change what is drawn
CommandNames ==
    {"setMaterial", "setDebugMode", "setTransformMode", "setBackgroundVisible",
     "setEnvMapQuality", "resize", "resetToDefaults", "setAutoRotate"}

\* the most recent call was a command, it returned, and no frame ran since
CommandReturned ==
    lastOp[1] \in CommandNames /\ ~threw /\ sinceOp.ticks = 0

\* C27: every command that mutates visible state (setMaterial, setDebugMode,
\* setTransformMode, setBackgroundVisible, setEnvMapQuality, resize,
\* resetToDefaults, setAutoRotate) leaves renderRequested set when it returns.
C27_CommandRequestsRender == CommandReturned => renderRequested

\* setAutoRotate(false) returned on a Ready renderer and left the flag set
C27_Witness ==
    /\ IsReady
    /\ lastOp = <<"setAutoRotate", FALSE>>
    /\ CommandReturned
    /\ renderRequested

\* a frame of the loop that issued a draw call
DrawingTick == sinceOp'.draws = sinceOp.draws + 1

\* the camera and the cube as the frame leaves them
PoseAfterTick == [camera |-> camera', cube |-> cube']

DrawIncludesAdvanceStep ==
    DrawingTick => loopBody(Frame, isInitialized).drawn = PoseAfterTick

\* C28 (as stated): on a tick of a Ready renderer with a render pending the
\* loop first advances the InputController (held-key movement, auto-rotate
\* increment), then issues one draw call, clears renderRequested and updates
\* the FPS counter, so the frame drawn shows the camera and the cube as that
\* tick's advance left them.
C28_DrawIncludesAdvance == [][DrawIncludesAdvanceStep]_vars

\* a frame of the loop ran
TickStep == sinceOp'.ticks = sinceOp.ticks + 1

\* controls.update has something to advance: a held key or auto-rotation
Advancing == controls.real /\ (controls.keys # {} \/ controls.autoRotate)

NoRequestLostStep ==
    /\ (TickStep /\ IsReady /\ renderRequested) => DrawingTick
    /\ (DrawingTick /\ Advancing) => renderRequested'
    /\ (renderRequested /\ ~renderRequested') => DrawingTick

\* C29: no render request is lost: a frame that runs while the renderer is
\* Ready with renderRequested set issues a draw call; the request that
\* controls.update raises in a drawn frame, after the flag was cleared, is
\* pending when the frame ends; and nothing but a drawn frame clears the flag.
C29_NoRequestLost == [][NoRequestLostStep]_vars

\* two frames in a row drew on a Ready, auto-rotating renderer: the second
\* served the request controls.update raised in the first, and raised the next
C29_Witness ==
    /\ IsReady /\ LoopRunning
    /\ controls.autoRotate
    /\ sinceOp.ticks = 2 /\ sinceOp.draws = 2
    /\ cube.rot = 2
    /\ renderRequested

QuiescenceStep ==
    /\ (TickStep /\ IsReady /\ Still /\ renderRequested) =>
           DrawingTick /\ ~renderRequested'
    /\ (TickStep /\ IsReady /\ Still /\ ~renderRequested) =>
           ~DrawingTick /\ ~renderRequested'
    /\ (TickStep /\ IsReady /\ controls.autoRotate) => DrawingTick

\* C30: quiescence: with auto-rotate off and no movement key held, a frame of
\* a Ready renderer that finds a render request draws once and leaves no
\* request behind, and a frame that finds none draws nothing and raises
\* none, so no frame draws until a command or input event sets the flag
\* again; while auto-rotate is on, every frame of a Ready renderer draws.
C30_Quiescence == [][QuiescenceStep]_vars

\* setAutoRotate(false) on a Ready renderer was followed by three frames: the
\* first drew, the other two did not
C30_Witness ==
    /\ IsReady /\ LoopRunning /\ Still
    /\ lastOp = <<"setAutoRotate", FALSE>>
    /\ sinceOp = [ticks |-> MaxTicks, draws |-> 1]
    /\ ~renderRequested

\* C31: at most one render-loop callback of this Renderer is scheduled at any
\* time, over any sequence of initialize (repeated ones included), dispose
\* and frames: animationId is null exactly when none is scheduled and
\* otherwise identifies the only one.
C31_SingleLoopCallback ==
    /\ Cardinality(rafQueue) <= 1
    /\ animationId = 0 => rafQueue = {}
    /\ animationId # 0 => rafQueue = {animationId}

\* a second initialize has completed on a renderer that was Ready with its
\* loop running (no dispose in between): still one callback
C31_Witness ==
    /\ IsReady /\ JustInitialized
    /\ Len(loads) = 6
    /\ rafQueue = {animationId}

\* the commands that call loadEnvironmentMap
EnvCommandNames == {"setEnvMapQuality", "setBackgroundVisible", "resetToDefaults"}

NoLoadAfterDisposeStep ==
    (Disposed /\ lastOp'[1] \in EnvCommandNames /\ sinceOp' = Quiet) =>
        /\ envMaps' = NoSlots
        /\ Len(loads') = Len(loads)

\* C32 (as stated): setEnvMapQuality, setBackgroundVisible and
\* resetToDefaults called on a disposed renderer start no HDR load and leave
\* the environment cache of the AssetManager empty.
C32_NoLoadAfterDispose == [][NoLoadAfterDisposeStep]_vars

\* debug mode is on: the transform gizmo is enabled
DebugModeOn == transformControls.enabled

\* C33 (as stated): whenever debug mode is on, however it was entered
\* (setDebugMode(true), initialize with debugMode true, resetToDefaults with
\* debugMode true) and whatever keys were pressed since, the drag-orbit input
\* is disabled and auto-rotate is off.
C33_DebugExcludesOrbit ==
    (controls.real /\ DebugModeOn) => ~controls.enabled /\ ~controls.autoRotate

\* C34: resetToDefaults applies the snapshot in the order camera pose, cube
\* transform, debug mode, background/environment, material, auto-rotate on,
\* and only then emits cameraReset and requests a render: when the call
\* returns on a Ready renderer the pose, the debug mode and the material are
\* the snapshot's, the latest environment request is the snapshot's,
\* auto-rotate is on (also when the snapshot switched debug mode on),
\* cameraReset is the first event of the call and a render is requested.
C34_ResetOrder ==
    (IsReady /\ lastOp[1] = "resetToDefaults" /\ sinceOp.ticks = 0) =>
        /\ ~threw
        /\ PoseMatches(lastOp[2])
        /\ DebugMatches(lastOp[2])
        /\ controls.enabled = ~lastOp[2].debugMode
        /\ envCall = [q |-> lastOp[2].envMapQuality,
                      show |-> lastOp[2].showBackground]
        /\ MaterialMatches(lastOp[2])
        /\ controls.autoRotate
        /\ emitted # <<>> /\ emitted[1] = CameraReset
        /\ renderRequested

\* resetToDefaults with debugMode true has returned on a Ready renderer:
\* the gizmo is on, the orbit input is off and auto-rotate is on
C34_Witness ==
    /\ IsReady
    /\ lastOp[1] = "resetToDefaults" /\ lastOp[2].debugMode
    /\ transformControls.enabled /\ ~controls.enabled
    /\ controls.autoRotate
    /\ emitted[1] = CameraReset /\ Len(emitted) > 1

\* the step is a second AssetManager.initialize call, or the continuation of
\* one after its await
SecondInitializeStep ==
    \/ lastOp'[1] = "amInitialize"
    \/ amAgain # 0 /\ amAgain' = 0

\* C35 (as stated): a second AssetManager.initialize call, made after the
\* first has resolved or while it is pending, starts no load and replaces no
\* cache entry.
C35_SecondInitializeNoOp ==
    [][SecondInitializeStep => loads' = loads /\ envMaps' = envMaps]_vars

\* every HDR load started so far has settled
NoLoadPending == \A id \in 1..Len(loads) : loads[id].st # "pending"

\* the events of event type t in a log
OfType(log, t) == {k \in 1..Len(log) : log[k].type = t}

SetAutoRotateSameValue ==
    /\ lastOp'[1] = "setAutoRotate"
    /\ sinceOp' = Quiet
    /\ controls.real
    /\ lastOp'[2] = controls.autoRotate

\* C37 (as stated): setAutoRotate(enabled) requests a render only if the
\* auto-rotate state changes; called with the value already in effect it
\* leaves renderRequested as it was.
C37_RequestOnlyOnChange ==
    [][SetAutoRotateSameValue => renderRequested' = renderRequested]_vars

\* setTransformMode was called while debug mode was off
SetTransformModeDebugOff ==
    /\ lastOp'[1] = "setTransformMode"
    /\ sinceOp' = Quiet
    /\ ~DebugModeOn

\* C38 (as stated): setTransformMode never raises an error, and while debug
\* mode is off it changes neither the mode of the gizmo nor anything else
\* of the renderer.
C38_TransformModeNoOp ==
    [][/\ lastOp'[1] = "setTransformMode" => ~threw'
       /\ SetTransformModeDebugOff =>
              UNCHANGED <<transformControls, renderRequested, labelsVisible,
                          scene, controls, camera, cube, faces, loads,
                          envMaps>>]_vars

\* the step is a resize call
ResizeStep == lastOp'[1] = "resize" /\ sinceOp' = Quiet

\* C39 (as stated): resize raises no error; called before initialize has
\* completed it leaves the camera aspect (and the surface size, which the
\* same argument sets) as they were; called on a Ready renderer it sets them
\* and requests a render.
C39_ResizeGuarded ==
    [][ResizeStep =>
          /\ ~threw'
          /\ IF isInitialized
             THEN camera'.aspect = lastOp'[2] /\ renderRequested'
             ELSE camera' = camera]_vars

\* the preset map holds the 12 entries of 2 types x 6 styles, each with the
\* parameters of its catalogue row, and getMaterial finds every combination
FullCatalogue ==
    /\ Cardinality(DOMAIN materials) = 12
    /\ \A t \in MaterialType, s \in FaceStyle :
          /\ getMaterial(materials, t, s).found
          /\ getMaterial(materials, t, s).params = Catalogue(t, s)

\* C40 (as stated): from the construction of the AssetManager on, the preset
\* catalogue holds exactly 12 entries whose roughness, metalness and colour
\* never change, and getMaterial returns an entry for every (type, style).
C40_CatalogueImmutable == FullCatalogue

\* C40 (amended): from the construction of the AssetManager until its
\* dispose the catalogue holds exactly 12 entries that no setMaterial,
\* resetToDefaults or environment load changes, and getMaterial returns an
\* entry for every (type, style); dispose empties the catalogue, after which
\* getMaterial returns null.
C40_CatalogueUntilDispose ==
    /\ instance => FullCatalogue
    /\ ~FullCatalogue => materials = NoMaterials /\ lastOp[1] # "new"

\* setMaterial has given face 3 of a Ready renderer the pbr metal preset,
\* one of the HDR loads has failed, and the catalogue is whole
C40_Witness ==
    /\ IsReady /\ FullCatalogue
    /\ lastOp[1] = "setMaterial"
    /\ faces[3] = Catalogue("pbr", "metal")
    /\ \E id \in 1..Len(loads) : loads[id].st = "failed"

====
